---- MODULE Spec2Model ----
(***************************************************************************)
(* Rate-limited command dispatcher of vestaboard-mqtt.                     *)
(*                                                                         *)
(* The model follows RateLimitMixin (src/src/vestaboard/base.py) and the   *)
(* write paths of VestaboardClient / LocalVestaboardClient.                *)
(*                                                                         *)
(* Time is counted in ticks of QUEUE_PROCESSING_DELAY (0.1 s).  The code   *)
(* only ever looks at the difference time.time() - self.last_send_time     *)
(* and compares it with rate_limit_seconds, so the field last_send_time is *)
(* kept as that difference (last_send_age), saturating at                  *)
(* rate_limit_seconds: larger ages are indistinguishable to the code.      *)
(* last_send_time = 0.0 at construction is an age far beyond the limit.    *)
(*                                                                         *)
(* Every thread that runs client code is a process with a program counter: *)
(* caller threads (MQTT / HTTP / restore callbacks) run write_message,     *)
(* write_animated_message and cleanup; every threading.Timer that fires    *)
(* runs _process_queue on a thread of its own.  A device write is two      *)
(* steps, the request (requests.post is called) and the response, with any *)
(* interleaving of the other threads and of the clock in between.          *)
(***************************************************************************)
EXTENDS Integers, Sequences, FiniteSets, TLC

\* ---------------------------------------------------------------- bounds
\* rate_limit_seconds of the instance, in ticks (constructor argument).
rate_limit_seconds == 2
\* max_queue_size of the instance (constructor argument).
max_queue_size == 2
\* Number of caller threads.
NumWriters == 1
\* Number of timer threads that may have fired and not yet finished.
NumTimerThreads == 1
\* Number of commands that enter the queue over a run.
MaxCmds == 3
\* Number of threading.Timer objects schedule_timed_message creates over a
\* run, and of the seconds in which it is called.
MaxTimers == 2
\* Largest duration_seconds of a timed message, in ticks.
MaxDuration == 2
\* Longest time the timed write of schedule_timed_message takes, in ticks.
MaxLag == 1

\* ------------------------------------------------------ program constants
\* QUEUE_PROCESSING_DELAY = 0.1 s, one tick.
QUEUE_PROCESSING_DELAY == 1
\* The 0.5 s _wait_for_rate_limit adds to its sleep, rounded up to a tick.
RATE_LIMIT_BUFFER == 1

Writers == 1..NumWriters
TimerThreads == (NumWriters + 1)..(NumWriters + NumTimerThreads)
Threads == Writers \cup TimerThreads
Cmds == 1..MaxCmds
NoThread == 0
TimerObjs == 1..MaxTimers
Ids == 1..MaxTimers
Durations == 1..MaxDuration
NoTimerObj == 0
\* The thread on which the Timer k of the TimerManager runs restore_previous.
CallbackThread(k) == NumWriters + NumTimerThreads + k
CallbackThreads == {CallbackThread(k) : k \in TimerObjs}
\* Restore slots: the slot temp_timer_<id> is named by its id, a slot the
\* caller supplies by SuppliedSlot.
SuppliedSlot == 0
Slots == Ids \cup {SuppliedSlot}

VARIABLES
    last_send_age,      \* time.time() - self.last_send_time, saturating
    message_queue,      \* self.message_queue, oldest first
    processing_queue,   \* self.processing_queue
    queue_timer,        \* self.queue_timer: [set, armed, remaining]
    queue_lock,         \* owner of self.queue_lock, or NoThread
    pc,                 \* position of every thread
    call,               \* per thread: the call it runs or ran last
    next_cmd,           \* number of the next command to enter the queue
    queue_sent,         \* history: commands _process_queue sent, in order
    evicted,            \* history: commands dropped by overflow
    discarded,          \* history: commands dropped by cleanup
    since_success,      \* history: ticks since the device last answered success
    active_timers,      \* TimerManager.active_timers: id -> Timer object, 0 absent
    timers,             \* the threading.Timer objects schedule_timed_message made
    cur_id,             \* int(time.time()), as the number of the current second
    id_used,            \* a schedule call has read the clock in this second
    ctl,                \* the thread that calls the TimerManager: its call
    slots,              \* states/temp_<id> holds a retained snapshot
    render,             \* render parameters of a timed message and its restore
    retained,           \* the retained message of the topic states/<slot> of one slot
    restore,            \* the restore_from_slot request for that slot
    listing             \* the get_timer_info_list call in progress or last made

\* RateLimitMixin and the clients.
dvars == <<last_send_age, message_queue, processing_queue, queue_timer, queue_lock,
           pc, call, next_cmd, queue_sent, evicted, discarded,
           since_success>>

\* TimerManager.
tvars == <<active_timers, timers, cur_id, id_used, ctl, slots>>

\* Render parameters of schedule_timed_message; restore_from_slot;
\* get_timer_info_list.
rvars == <<render, retained, restore, listing>>

vars == <<dvars, tvars, rvars>>

Min(a, b) == IF a <= b THEN a ELSE b
Range(s) == {s[i] : i \in 1..Len(s)}

\* op: the method; cmd: the queued command it enqueued or popped (commands are
\* numbered in the order they enter the queue; a message sent directly has no
\* number); gate: what _can_send_now() answered;
\* valid: the arguments passed validation; requests: device requests made by
\* this call (history, counted to 2); device: the device's answer (history);
\* ret: the value returned.
NoCall == [op |-> "none", cmd |-> 0, gate |-> FALSE, valid |-> TRUE,
           requests |-> 0, device |-> "none", ret |-> "none"]
NoTimer == [set |-> FALSE, armed |-> FALSE, remaining |-> 0, orphans |-> 0]
\* A threading.Timer of the TimerManager that has not been created yet.
\* st is the position of the Timer and of its restore_previous callback;
\* age is the time since write_time, up to the rate limit; restored,
\* cancel_true and swept are histories: restore_callback returned for this
\* timer, cancel_timed_message popped this timer and returned True,
\* cleanup_all_timers found this timer in active_timers.
\* slot is the restore_slot restore_previous is bound to.  captured and
\* wrote are histories: what save_current_state did in the call that made
\* the Timer, and whether the restore handed a layout to write_message.
\* lag is the time the timed write took, from the call of write_message to
\* write_time.
\* cmd is the number the timed content got in the client's queue, 0 when
\* it was sent directly.  rst is the position of the restore's
\* write_message: "none", "subscribed" (restore_callback has asked for the
\* slot's retained message), "calling", then "direct" or "queued"; rcmd is
\* the number the restore content got in the queue.
UnusedTimer == [id |-> 0, st |-> "unused", remaining |-> 0, age |-> 0, wait |-> 0,
                lag |-> 0,
                slot |-> SuppliedSlot, captured |-> "no", wrote |-> FALSE,
                restored |-> FALSE, cancel_true |-> FALSE, swept |-> FALSE,
                cmd |-> 0, rst |-> "none", rcmd |-> 0]
\* The thread that calls the TimerManager is in no call.
\* slot is the restore_slot of a schedule_timed_message call in progress,
\* captured what its save_current_state did: "no" not called, "saved",
\* "failed".
\* lag is the time the timed write has been in progress.
NoCtl == [op |-> "none", st |-> "idle", id |-> 0, ret |-> "none", timer |-> 0,
          slot |-> SuppliedSlot, captured |-> "no", lag |-> 0]

\* A JSON value found under "layout", outermost first: "str" a string
\* holding JSON text, "dict" an object with a "message" member, then what
\* is inside; the innermost is a list of rows of the board's shape
\* ("list_board"), any other list ("list_other"), an object without
\* "message" ("dict_plain"), a number or null ("other"), or text that is
\* not JSON ("invalid", inside a string only).
LayoutWrappers == {<<>>, <<"str">>, <<"dict">>, <<"str", "dict">>, <<"dict", "str">>,
                   <<"str", "str">>, <<"dict", "dict">>}
LayoutValues ==
    {w \o <<b>> : w \in LayoutWrappers,
                  b \in {"list_board", "list_other", "dict_plain", "other"}}
        \cup {<<"str", "invalid">>, <<"dict", "str", "invalid">>}

\* The retained message of a slot as on_restore_message meets it: body
\* "absent" (no retained message, the callback is never called), "empty",
\* "invalid" (not JSON), "not_object" (JSON, but no object), or "object"
\* with its layout (<<>> when it has no "layout" member).
Payloads ==
    {[body |-> b, layout |-> <<>>] : b \in {"absent", "empty", "invalid", "not_object", "object"}}
        \cup {[body |-> "object", layout |-> v] : v \in LayoutValues}

\* The payload save_current_state publishes: the device's layout.
SavedPayload == [body |-> "object", layout |-> <<"list_board">>]
AbsentPayload == [body |-> "absent", layout |-> <<>>]

\* No restore_from_slot call has been made.  st: "waiting" while
\* on_restore_message is registered for the topic and subscribed; msg is
\* the first message the broker has sent to the subscription and the
\* callback has not handled yet; found and written are histories: the
\* retained message of the slot when the request was made, and that the
\* request's callback has handed a layout to write_message.
EmptyPayload == [body |-> "empty", layout |-> <<>>]
NoRestore == [st |-> "none", msg |-> AbsentPayload, found |-> AbsentPayload,
              written |-> FALSE]

\* No get_timer_info_list call has been made.  used is the size of
\* active_timers the dict iterator took when the loop began, pos the id it
\* yielded last, out the ids of the entries appended to timer_info.
NoListing == [st |-> "idle", used |-> 0, pos |-> 0, out |-> {}]

\* The render parameters of a timed message, each None or a value.
ParamNames == {"strategy", "step_interval_ms", "step_size"}
ParamValues == {"None", "a", "b"}
NoParams == [p \in ParamNames |-> "None"]
\* No timed message has been scheduled.  timed and restore are the
\* arguments of the last schedule_timed_message call (strategy .. and
\* restore_strategy ..), animated its use_animation, final the
\* final_restore_* values restore_previous closes over, passed the keyword
\* arguments restore_callback was called with.
NoRender == [st |-> "idle", timed |-> NoParams, restore |-> NoParams,
             animated |-> FALSE, final |-> NoParams, passed |-> NoParams]

TypeOK ==
    /\ last_send_age \in 0..rate_limit_seconds
    /\ message_queue \in Seq(Cmds)
    /\ processing_queue \in BOOLEAN
    /\ queue_timer \in [set : BOOLEAN, armed : BOOLEAN,
                        remaining : 0..(rate_limit_seconds + QUEUE_PROCESSING_DELAY),
                        orphans : {0}]
    /\ queue_lock \in Threads \cup CallbackThreads \cup {NoThread}
    /\ pc \in [Threads -> {"idle", "wm_send", "wm_inflight", "wm_queue",
                           "wa_send", "wa_inflight",
                           "pq_wait", "pq_send", "pq_inflight", "done"}]
    /\ next_cmd \in 1..(MaxCmds + 1)
    /\ since_success \in 0..rate_limit_seconds
    /\ active_timers \in [Ids -> TimerObjs \cup {NoTimerObj}]
    /\ timers \in [TimerObjs ->
                    [id : Ids \cup {0},
                     st : {"unused", "pending", "cancelled", "firing",
                           "returned", "raised", "finished"},
                     remaining : 0..MaxDuration,
                     age : 0..rate_limit_seconds,
                     wait : 0..(rate_limit_seconds + RATE_LIMIT_BUFFER),
                     lag : 0..MaxLag,
                     slot : Slots, captured : {"no", "saved", "failed"},
                     wrote : BOOLEAN,
                     restored : BOOLEAN, cancel_true : BOOLEAN,
                     swept : BOOLEAN,
                     cmd : 0..MaxCmds,
                     rst : {"none", "subscribed", "calling", "direct", "queued"},
                     rcmd : 0..MaxCmds]]
    /\ cur_id \in Ids
    /\ id_used \in BOOLEAN
    /\ slots \in [Ids -> BOOLEAN]
    /\ retained \in Payloads
    /\ listing \in [st : {"idle", "iterating", "returned", "raised"},
                     used : 0..MaxTimers, pos : Ids \cup {0}, out : SUBSET Ids]
    /\ restore \in [st : {"none", "waiting", "done"}, msg : Payloads,
                     found : Payloads, written : BOOLEAN]
    /\ render \in [st : {"idle", "failed", "armed", "called"},
                    timed : [ParamNames -> ParamValues],
                    restore : [ParamNames -> ParamValues],
                    animated : BOOLEAN,
                    final : [ParamNames -> ParamValues],
                    passed : [ParamNames -> ParamValues]]
    /\ ctl \in [op : {"none", "schedule", "cancel", "cleanup"},
                 st : {"idle", "writing", "returned"},
                 id : Ids \cup {0}, ret : {"none", "id", "True", "False"},
                 timer : TimerObjs \cup {NoTimerObj},
                 slot : Slots, captured : {"no", "saved", "failed"},
                 lag : 0..MaxLag]

Init ==
    /\ last_send_age = rate_limit_seconds
    /\ message_queue = <<>>
    /\ processing_queue = FALSE
    /\ queue_timer = NoTimer
    /\ queue_lock = NoThread
    /\ pc = [t \in Threads |-> "idle"]
    /\ call = [t \in Threads |-> NoCall]
    /\ next_cmd = 1
    /\ queue_sent = <<>>
    /\ evicted = {}
    /\ discarded = {}
    /\ since_success = rate_limit_seconds
    /\ active_timers = [i \in Ids |-> NoTimerObj]
    /\ timers = [k \in TimerObjs |-> UnusedTimer]
    /\ cur_id = 1
    /\ id_used = FALSE
    /\ ctl = NoCtl
    /\ slots = [i \in Ids |-> FALSE]
    /\ render = NoRender
    /\ retained = AbsentPayload
    /\ restore = NoRestore
    /\ listing = NoListing

\* ------------------------------------------------------------- RateGate
\* _can_send_now
can_send_now == last_send_age >= rate_limit_seconds

\* ------------------------------------------------- deque(maxlen=...)
\* Faulty variant of deque_append: an unbounded deque (maxlen forgotten).
deque_append_unbounded(q, m) == Append(q, m)

\* Faulty variant of deque_append: a full queue rejects the new command.
deque_append_drop_newest(q, m) ==
    IF Len(q) >= max_queue_size THEN q ELSE Append(q, m)

\* collections.deque.append on a bounded deque: a full deque drops its
\* leftmost element.
deque_append(q, m) ==
    IF max_queue_size = 0 THEN q
    ELSE IF Len(q) >= max_queue_size THEN Append(Tail(q), m)
    ELSE Append(q, m)

\* Faulty variant of deque_popleft: deque.pop, the newest command.
deque_pop_right(q) == [item |-> q[Len(q)], rest |-> SubSeq(q, 1, Len(q) - 1)]

\* Faulty variant of deque_popleft: the command is read but left in the queue.
deque_peek(q) == [item |-> Head(q), rest |-> q]

\* deque.popleft
deque_popleft(q) == [item |-> Head(q), rest |-> Tail(q)]

\* ------------------------------------------- _schedule_queue_processing
\* age: time.time() - self.last_send_time as read at line 109.
time_until_next_send(age) ==
    IF rate_limit_seconds - age <= 0
    THEN QUEUE_PROCESSING_DELAY
    ELSE rate_limit_seconds - age

\* Faulty variant of schedule_queue_processing: the timer the handle refers
\* to is not cancelled before the handle is overwritten, so a timer that
\* was still pending stays pending without a handle.
schedule_queue_processing_no_cancel(age) ==
    /\ processing_queue' = TRUE
    /\ queue_timer' = [set |-> TRUE, armed |-> TRUE,
                       remaining |-> time_until_next_send(age),
                       orphans |-> queue_timer.orphans
                                   + (IF queue_timer.armed THEN 1 ELSE 0)]

\* Lines 105-115.  The timer the handle refers to is cancelled (106-107),
\* a new one-shot timer is armed and stored in the handle, and
\* processing_queue is set.  orphans counts the timers that are pending
\* without being the handle's: the cancel leaves none behind.
schedule_queue_processing(age) ==
    /\ processing_queue' = TRUE
    /\ queue_timer' = [set |-> TRUE, armed |-> TRUE,
                       remaining |-> time_until_next_send(age),
                       orphans |-> queue_timer.orphans]

\* ------------------------------------------------------------ the clock
Tick ==
    /\ last_send_age' = Min(last_send_age + 1, rate_limit_seconds)
    /\ since_success' = Min(since_success + 1, rate_limit_seconds)
    /\ queue_timer' = IF queue_timer.armed /\ queue_timer.remaining > 0
                      THEN [queue_timer EXCEPT !.remaining = @ - 1]
                      ELSE queue_timer
    /\ UNCHANGED <<message_queue, processing_queue, queue_lock, pc, call, next_cmd,
                   queue_sent, evicted, discarded>>
    /\ UNCHANGED <<tvars, rvars>>

\* Caller threads are interchangeable: a new call is made by the
\* lowest-numbered idle one.
IdleWriter(t) ==
    /\ t \in Writers
    /\ pc[t] = "idle"
    /\ \A u \in Writers : u < t => pc[u] # "idle"

\* Faulty variant of WriteMessage: the gate is not consulted, every write
\* goes straight to the device.
WriteMessage_no_gate(t) ==
    /\ IdleWriter(t)
    /\ can_send_now
       \/ next_cmd + Cardinality({u \in Writers : pc[u] = "wm_queue"}) <= MaxCmds
    /\ call' = [call EXCEPT ![t] = [op |-> "write_message", cmd |-> 0,
                                    gate |-> can_send_now, valid |-> TRUE,
                                    requests |-> 0, device |-> "none", ret |-> "none"]]
    /\ pc' = [pc EXCEPT ![t] = "wm_send"]
    /\ UNCHANGED <<last_send_age, message_queue, processing_queue, queue_timer,
                   queue_lock, next_cmd, queue_sent, evicted, discarded,
                   since_success>>
    /\ UNCHANGED <<tvars, rvars>>

\* ------------------------------------------------------- write_message
\* The gate check of write_message: routes to the direct send or to the
\* queue.  No lock is held.  At most MaxCmds calls of a run take the queue
\* branch; direct sends are not limited.
WriteMessage(t) ==
    /\ IdleWriter(t)
    /\ can_send_now
       \/ next_cmd + Cardinality({u \in Writers : pc[u] = "wm_queue"}) <= MaxCmds
    /\ call' = [call EXCEPT ![t] = [op |-> "write_message", cmd |-> 0,
                                    gate |-> can_send_now, valid |-> TRUE,
                                    requests |-> 0, device |-> "none", ret |-> "none"]]
    /\ pc' = [pc EXCEPT ![t] = IF can_send_now THEN "wm_send" ELSE "wm_queue"]
    /\ UNCHANGED <<last_send_age, message_queue, processing_queue, queue_timer,
                   queue_lock, next_cmd, queue_sent, evicted, discarded,
                   since_success>>
    /\ UNCHANGED <<tvars, rvars>>

\* Faulty variant of queue_message: a full queue refuses the command and
\* reports False.
queue_message_reject_full(t) ==
    IF Len(message_queue) >= max_queue_size
    THEN /\ call' = [call EXCEPT ![t].ret = "False"]
         /\ UNCHANGED <<message_queue, next_cmd, evicted, processing_queue, queue_timer>>
    ELSE /\ message_queue' = Append(message_queue, next_cmd)
         /\ next_cmd' = next_cmd + 1
         /\ evicted' = evicted
         /\ IF ~processing_queue
            THEN schedule_queue_processing(last_send_age)
            ELSE UNCHANGED <<processing_queue, queue_timer>>
         /\ call' = [call EXCEPT ![t].cmd = next_cmd, ![t].ret = "True"]

\* _queue_message, run inside queue_lock.
queue_message(t) ==
    /\ message_queue' = deque_append(message_queue, next_cmd)
    /\ next_cmd' = next_cmd + 1
    /\ evicted' = evicted \cup ((Range(message_queue) \cup {next_cmd})
                                   \ Range(message_queue'))
    /\ IF ~processing_queue
       THEN schedule_queue_processing(last_send_age)
       ELSE UNCHANGED <<processing_queue, queue_timer>>
    /\ call' = [call EXCEPT ![t].cmd = next_cmd, ![t].ret = "True"]

\* Faulty variant of QueueMessage: _queue_message does not take queue_lock.
QueueMessage_no_lock(t) ==
    /\ t \in Writers
    /\ pc[t] = "wm_queue"
    /\ queue_message(t)
    /\ pc' = [pc EXCEPT ![t] = "done"]
    /\ UNCHANGED <<last_send_age, queue_lock, queue_sent, discarded, since_success>>
    /\ UNCHANGED <<tvars, rvars>>

QueueMessage(t) ==
    /\ t \in Writers
    /\ pc[t] = "wm_queue"
    /\ queue_lock = NoThread
    /\ queue_message(t)
    /\ pc' = [pc EXCEPT ![t] = "done"]
    /\ UNCHANGED <<last_send_age, queue_lock, queue_sent, discarded, since_success>>
    /\ UNCHANGED <<tvars, rvars>>

\* ------------------------------------------------- _send_message_direct
\* requests.post is called: the device call is initiated.
device_request(t) ==
    call' = [call EXCEPT ![t].requests = Min(@ + 1, 2)]

\* Faulty variant of send_message_direct: a success does not record
\* last_send_time.
send_message_direct_no_stamp(t, ok) ==
    /\ since_success' = IF ok THEN 0 ELSE since_success
    /\ last_send_age' = last_send_age
    /\ call' = [call EXCEPT ![t].device = IF ok THEN "ok" ELSE "fail",
                            ![t].ret = IF ok THEN "True" ELSE "False"]

\* Faulty variant of send_message_direct: last_send_time is recorded before
\* the status is looked at, so also for a failed send.
send_message_direct_stamp_always(t, ok) ==
    /\ since_success' = IF ok THEN 0 ELSE since_success
    /\ last_send_age' = 0
    /\ call' = [call EXCEPT ![t].device = IF ok THEN "ok" ELSE "fail",
                            ![t].ret = IF ok THEN "True" ELSE "False"]

\* The response: 200 (ok) records last_send_time = time.time() and returns
\* True; 429, an error status, a network error or a timeout returns False.
send_message_direct(t, ok) ==
    /\ since_success' = IF ok THEN 0 ELSE since_success
    /\ last_send_age' = IF ok THEN 0 ELSE last_send_age
    /\ call' = [call EXCEPT ![t].device = IF ok THEN "ok" ELSE "fail",
                            ![t].ret = IF ok THEN "True" ELSE "False"]

\* write_message / write_animated_message, gate open: the request.
DirectRequest(t) ==
    /\ t \in Writers
    /\ pc[t] \in {"wm_send", "wa_send"}
    /\ device_request(t)
    /\ pc' = [pc EXCEPT ![t] = IF pc[t] = "wm_send" THEN "wm_inflight" ELSE "wa_inflight"]
    /\ UNCHANGED <<last_send_age, message_queue, processing_queue, queue_timer,
                   queue_lock, next_cmd, queue_sent, evicted, discarded,
                   since_success>>
    /\ UNCHANGED <<tvars, rvars>>

DirectResponse(t, ok) ==
    /\ t \in Writers
    /\ pc[t] \in {"wm_inflight", "wa_inflight"}
    /\ send_message_direct(t, ok)
    /\ pc' = [pc EXCEPT ![t] = "done"]
    /\ UNCHANGED <<message_queue, processing_queue, queue_timer, queue_lock, next_cmd,
                   queue_sent, evicted, discarded>>
    /\ UNCHANGED <<tvars, rvars>>

DirectSuccess(t) == DirectResponse(t, TRUE)

DirectFailure(t) == DirectResponse(t, FALSE)

\* ----------------------------------------------- write_animated_message
\* Faulty variant of WriteAnimated: a rate-limited animated write is queued
\* like a plain write.
WriteAnimated_queue_when_closed(t, valid) ==
    /\ IdleWriter(t)
    /\ call' = [call EXCEPT ![t] =
                   [op |-> "write_animated_message", cmd |-> 0,
                    gate |-> valid /\ can_send_now, valid |-> valid,
                    requests |-> 0, device |-> "none",
                    ret |-> IF valid THEN "none" ELSE "False"]]
    /\ pc' = [pc EXCEPT ![t] = IF ~valid THEN "done"
                               ELSE IF can_send_now THEN "wa_send" ELSE "wm_queue"]
    /\ UNCHANGED <<last_send_age, message_queue, processing_queue, queue_timer,
                   queue_lock, next_cmd, queue_sent, evicted, discarded,
                   since_success>>
    /\ UNCHANGED <<tvars, rvars>>

\* valid: the strategy and the step parameters pass validation.  A call that
\* fails validation returns False before the gate is looked at; one that
\* finds the gate closed returns False at once; its message goes nowhere.
WriteAnimated(t, valid) ==
    /\ IdleWriter(t)
    /\ IF valid /\ can_send_now
       THEN /\ call' = [call EXCEPT ![t] =
                           [op |-> "write_animated_message", cmd |-> 0,
                            gate |-> TRUE, valid |-> TRUE,
                            requests |-> 0, device |-> "none", ret |-> "none"]]
            /\ pc' = [pc EXCEPT ![t] = "wa_send"]
       ELSE /\ call' = [call EXCEPT ![t] =
                           [op |-> "write_animated_message", cmd |-> 0,
                            gate |-> FALSE, valid |-> valid,
                            requests |-> 0, device |-> "none", ret |-> "False"]]
            /\ pc' = [pc EXCEPT ![t] = "done"]
    /\ UNCHANGED <<last_send_age, message_queue, processing_queue, queue_timer,
                   queue_lock, next_cmd, queue_sent, evicted, discarded,
                   since_success>>
    /\ UNCHANGED <<tvars, rvars>>

\* The caller has the result; the thread goes on to other work (a timer
\* thread ends).
Return(t) ==
    /\ t \in Threads
    /\ pc[t] = "done"
    /\ pc' = [pc EXCEPT ![t] = "idle"]
    /\ call' = [call EXCEPT ![t] = NoCall]
    /\ UNCHANGED <<last_send_age, message_queue, processing_queue, queue_timer,
                   queue_lock, next_cmd, queue_sent, evicted, discarded,
                   since_success>>
    /\ UNCHANGED <<tvars, rvars>>

\* ------------------------------------------------------ threading.Timer
\* The armed timer's delay has passed: its thread starts _process_queue and
\* first waits for queue_lock.  cancel() no longer stops it.
TimerFire(t) ==
    /\ queue_timer.armed
    /\ queue_timer.remaining = 0
    /\ t \in TimerThreads
    /\ pc[t] = "idle"
    /\ \A u \in TimerThreads : u < t => pc[u] # "idle"
    /\ queue_timer' = [queue_timer EXCEPT !.armed = FALSE]
    /\ pc' = [pc EXCEPT ![t] = "pq_wait"]
    /\ call' = [call EXCEPT ![t] = [NoCall EXCEPT !.op = "process_queue"]]
    /\ UNCHANGED <<last_send_age, message_queue, processing_queue, queue_lock,
                   next_cmd, queue_sent, evicted, discarded,
                   since_success>>
    /\ UNCHANGED <<tvars, rvars>>

\* -------------------------------------------------------- _process_queue
\* Faulty variant of ProcessQueueEnter: the gate is not looked at, the
\* oldest command is popped whenever there is one.
ProcessQueueEnter_ignore_gate(t) ==
    /\ t \in TimerThreads
    /\ pc[t] = "pq_wait"
    /\ queue_lock = NoThread
    /\ IF message_queue = <<>>
       THEN /\ processing_queue' = FALSE
            /\ pc' = [pc EXCEPT ![t] = "idle"]
            /\ call' = [call EXCEPT ![t] = NoCall]
            /\ UNCHANGED <<message_queue, queue_timer, queue_lock>>
       ELSE /\ processing_queue' = FALSE
            /\ message_queue' = deque_popleft(message_queue).rest
            /\ call' = [call EXCEPT ![t].cmd = deque_popleft(message_queue).item,
                                    ![t].gate = TRUE]
            /\ queue_lock' = t
            /\ pc' = [pc EXCEPT ![t] = "pq_send"]
            /\ UNCHANGED queue_timer
    /\ UNCHANGED <<last_send_age, next_cmd, queue_sent, evicted,
                   discarded, since_success>>
    /\ UNCHANGED <<tvars, rvars>>

\* Lines 124-137: take the lock, clear processing_queue, return on an empty
\* queue, re-arm on a closed gate, else pop the oldest command.
ProcessQueueEnter(t) ==
    /\ t \in TimerThreads
    /\ pc[t] = "pq_wait"
    /\ queue_lock = NoThread
    /\ IF message_queue = <<>>
       THEN /\ processing_queue' = FALSE
            /\ pc' = [pc EXCEPT ![t] = "idle"]
            /\ call' = [call EXCEPT ![t] = NoCall]
            /\ UNCHANGED <<message_queue, queue_timer, queue_lock>>
       ELSE IF ~can_send_now
       THEN /\ schedule_queue_processing(last_send_age)
            /\ pc' = [pc EXCEPT ![t] = "idle"]
            /\ call' = [call EXCEPT ![t] = NoCall]
            /\ UNCHANGED <<message_queue, queue_lock>>
       ELSE /\ processing_queue' = FALSE
            /\ message_queue' = deque_popleft(message_queue).rest
            /\ call' = [call EXCEPT ![t].cmd = deque_popleft(message_queue).item,
                                    ![t].gate = TRUE]
            /\ queue_lock' = t
            /\ pc' = [pc EXCEPT ![t] = "pq_send"]
            /\ UNCHANGED queue_timer
    /\ UNCHANGED <<last_send_age, next_cmd, queue_sent, evicted,
                   discarded, since_success>>
    /\ UNCHANGED <<tvars, rvars>>

\* Line 139, the request, made while holding the lock.
ProcessQueueRequest(t) ==
    /\ t \in TimerThreads
    /\ pc[t] = "pq_send"
    /\ device_request(t)
    /\ queue_sent' = Append(queue_sent, call[t].cmd)
    /\ pc' = [pc EXCEPT ![t] = "pq_inflight"]
    /\ UNCHANGED <<last_send_age, message_queue, processing_queue, queue_timer,
                   queue_lock, next_cmd, evicted, discarded,
                   since_success>>
    /\ UNCHANGED <<tvars, rvars>>

\* Faulty variant of ProcessQueueResponse: the timer is re-armed whenever
\* commands remain, also after a failed send.
ProcessQueueResponse_rearm_always(t, ok) ==
    /\ t \in TimerThreads
    /\ pc[t] = "pq_inflight"
    /\ send_message_direct(t, ok)
    /\ IF message_queue # <<>>
       THEN schedule_queue_processing(last_send_age')
       ELSE UNCHANGED <<processing_queue, queue_timer>>
    /\ queue_lock' = NoThread
    /\ pc' = [pc EXCEPT ![t] = "done"]
    /\ UNCHANGED <<message_queue, next_cmd, queue_sent, evicted, discarded>>
    /\ UNCHANGED <<tvars, rvars>>

\* Lines 139-142: the response; re-arm when commands remain and the send
\* succeeded; the lock is released.
ProcessQueueResponse(t, ok) ==
    /\ t \in TimerThreads
    /\ pc[t] = "pq_inflight"
    /\ send_message_direct(t, ok)
    /\ IF message_queue # <<>> /\ ok
       THEN schedule_queue_processing(last_send_age')
       ELSE UNCHANGED <<processing_queue, queue_timer>>
    /\ queue_lock' = NoThread
    /\ pc' = [pc EXCEPT ![t] = "done"]
    /\ UNCHANGED <<message_queue, next_cmd, queue_sent, evicted, discarded>>
    /\ UNCHANGED <<tvars, rvars>>

ProcessQueueSuccess(t) == ProcessQueueResponse(t, TRUE)

ProcessQueueFailure(t) == ProcessQueueResponse(t, FALSE)

\* ------------------------------------------------ _cleanup_rate_limiting
\* Faulty variant of Cleanup: the timer is cancelled but the queue is not
\* cleared.
Cleanup_keep_queue ==
    /\ queue_lock = NoThread
    /\ queue_timer' = NoTimer
    /\ processing_queue' = FALSE
    /\ discarded' = discarded \cup Range(message_queue)
    /\ UNCHANGED <<last_send_age, message_queue, queue_lock, pc, call, next_cmd,
                   queue_sent, evicted, since_success>>
    /\ UNCHANGED <<tvars, rvars>>

\* Called by the owner of the client (bridge stop, __del__), not by one of
\* the caller threads above.
Cleanup ==
    /\ queue_lock = NoThread
    /\ queue_timer' = NoTimer
    /\ processing_queue' = FALSE
    /\ message_queue' = <<>>
    /\ discarded' = discarded \cup Range(message_queue)
    /\ UNCHANGED <<last_send_age, queue_lock, pc, call, next_cmd, queue_sent,
                   evicted, since_success>>
    /\ UNCHANGED <<tvars, rvars>>

\* ------------------------------------------------------- specifications
Next ==
    \/ Tick
    \/ \E t \in Writers : WriteMessage(t)
    \/ \E t \in Writers : QueueMessage(t)
    \/ \E t \in Writers : DirectRequest(t)
    \/ \E t \in Writers : DirectSuccess(t)
    \/ \E t \in Writers : DirectFailure(t)
    \/ \E t \in Writers, valid \in BOOLEAN : WriteAnimated(t, valid)
    \/ \E t \in TimerThreads : TimerFire(t)
    \/ \E t \in TimerThreads : ProcessQueueEnter(t)
    \/ \E t \in TimerThreads : ProcessQueueRequest(t)
    \/ \E t \in TimerThreads : ProcessQueueSuccess(t)
    \/ \E t \in TimerThreads : ProcessQueueFailure(t)
    \/ Cleanup
    \/ \E t \in Threads : Return(t)

Spec == Init /\ [][Next]_vars

\* Every device write succeeds and cleanup is not called.  The clock
\* advances, a due timer fires, and every thread that is inside a call gets
\* to take its next step; callers are free to call or not.
NextLive ==
    \/ Tick
    \/ \E t \in Writers : WriteMessage(t)
    \/ \E t \in Writers : QueueMessage(t)
    \/ \E t \in Writers : DirectRequest(t)
    \/ \E t \in Writers : DirectSuccess(t)
    \/ \E t \in Writers, valid \in BOOLEAN : WriteAnimated(t, valid)
    \/ \E t \in TimerThreads : TimerFire(t)
    \/ \E t \in TimerThreads : ProcessQueueEnter(t)
    \/ \E t \in TimerThreads : ProcessQueueRequest(t)
    \/ \E t \in TimerThreads : ProcessQueueSuccess(t)
    \/ \E t \in Threads : Return(t)

LiveSpec ==
    /\ Init
    /\ [][NextLive]_vars
    /\ WF_vars(Tick)
    /\ \A t \in Writers :
          /\ WF_vars(QueueMessage(t))
          /\ WF_vars(DirectRequest(t))
          /\ WF_vars(DirectSuccess(t))
          /\ WF_vars(Return(t))
    /\ \A t \in TimerThreads :
          /\ WF_vars(TimerFire(t))
          /\ WF_vars(ProcessQueueEnter(t))
          /\ WF_vars(ProcessQueueRequest(t))
          /\ WF_vars(ProcessQueueSuccess(t))
          /\ WF_vars(Return(t))

\* --------------------------------------------------------- TimerManager
\* The clients' write_message / write_animated_message and the bridge's
\* restore callback are taken by their outcome here: the write returns True
\* or False, the callback returns or raises.  The TimerManager is called
\* from one thread, the MQTT loop (_on_message, and stop after the loop
\* has ended); the Timer callbacks run on threads of their own.

\* The Timer object the next successful schedule_timed_message creates.
NextTimerObj == CHOOSE k \in TimerObjs :
                    timers[k].st = "unused" /\ \A j \in 1..(k - 1) : timers[j].st # "unused"

CtlFree == ctl.st \in {"idle", "returned"} /\ ctl.op # "cleanup"

\* save_state_manager.save_current_state(slot): True when the device was
\* read and the snapshot published, False otherwise.
save_current_state(saved) == IF saved THEN "saved" ELSE "failed"

\* schedule_timed_message that takes the slot temp_<timer_id> without
\* saving the current state to it.
ScheduleCall_no_capture(restore_slot_given, saved) ==
    /\ CtlFree
    /\ \E k \in TimerObjs : timers[k].st = "unused"
    /\ ctl' = [op |-> "schedule", st |-> "writing", id |-> cur_id,
               ret |-> "none", timer |-> NoTimerObj,
               slot |-> IF restore_slot_given THEN SuppliedSlot ELSE cur_id,
               captured |-> "no", lag |-> 0]
    /\ id_used' = TRUE
    /\ UNCHANGED <<active_timers, timers, cur_id, slots>>
    /\ UNCHANGED <<dvars, rvars>>

\* schedule_timed_message up to the write: timer_id is the current second;
\* without a restore_slot the current state is saved to temp_<timer_id>
\* and that slot is taken.
ScheduleCall(restore_slot_given, saved) ==
    /\ CtlFree
    /\ \E k \in TimerObjs : timers[k].st = "unused"
    /\ ctl' = [op |-> "schedule", st |-> "writing", id |-> cur_id,
               ret |-> "none", timer |-> NoTimerObj,
               slot |-> IF restore_slot_given THEN SuppliedSlot ELSE cur_id,
               captured |-> IF restore_slot_given THEN "no"
                            ELSE save_current_state(saved),
               lag |-> 0]
    /\ slots' = IF ~restore_slot_given /\ saved
                 THEN [slots EXCEPT ![cur_id] = TRUE]
                 ELSE slots
    /\ id_used' = TRUE
    /\ UNCHANGED <<active_timers, timers, cur_id>>
    /\ UNCHANGED <<dvars, rvars>>

\* schedule_timed_message from the result of the write on: a failed write
\* returns the id and creates no Timer; a successful one creates the
\* Timer, stores it under timer_id and starts it.
ScheduleWrite(success, duration_seconds) ==
    /\ ctl.op = "schedule" /\ ctl.st = "writing"
    /\ IF ~success
       THEN /\ ctl' = [ctl EXCEPT !.st = "returned", !.ret = "id",
                                  !.slot = SuppliedSlot, !.captured = "no",
                                  !.lag = 0]
            /\ UNCHANGED <<active_timers, timers>>
       ELSE LET k == NextTimerObj IN
            /\ timers' = [timers EXCEPT ![k] =
                             [UnusedTimer EXCEPT !.id = ctl.id, !.st = "pending",
                                                 !.remaining = duration_seconds,
                                                 !.slot = ctl.slot,
                                                 !.captured = ctl.captured,
                                                 !.lag = ctl.lag]]
            /\ active_timers' = [active_timers EXCEPT ![ctl.id] = k]
            /\ ctl' = [ctl EXCEPT !.st = "returned", !.ret = "id", !.timer = k,
                                  !.slot = SuppliedSlot, !.captured = "no",
                                  !.lag = 0]
    /\ UNCHANGED <<cur_id, id_used>>
    /\ UNCHANGED <<slots, dvars, rvars>>

ScheduleWriteOk == \E d \in Durations : ScheduleWrite(TRUE, d)
ScheduleWriteFails == ScheduleWrite(FALSE, 1)

\* threading.Timer.cancel: sets the finished event; a Timer whose interval
\* has already elapsed runs its function regardless.  The interval and the
\* write_time of a cancelled Timer are read no more.
timer_cancel(tm) ==
    IF tm.st = "pending"
    THEN [tm EXCEPT !.st = "cancelled", !.remaining = 0, !.age = 0]
    ELSE tm

\* cancel_timed_message
CancelTimedMessage(timer_id) ==
    /\ CtlFree
    /\ LET k == active_timers[timer_id] IN
       IF k # NoTimerObj
       THEN /\ active_timers' = [active_timers EXCEPT ![timer_id] = NoTimerObj]
            /\ timers' = [timers EXCEPT ![k] =
                             [timer_cancel(timers[k]) EXCEPT !.cancel_true = TRUE]]
            /\ ctl' = [NoCtl EXCEPT !.op = "cancel", !.st = "returned",
                                    !.id = timer_id, !.ret = "True", !.timer = k]
       ELSE /\ ctl' = [NoCtl EXCEPT !.op = "cancel", !.st = "returned",
                                    !.id = timer_id, !.ret = "False"]
            /\ UNCHANGED <<active_timers, timers>>
    /\ UNCHANGED <<cur_id, id_used>>
    /\ UNCHANGED <<slots, dvars, rvars>>

\* cleanup_all_timers, called by the bridge's stop: no call follows it.
CleanupAllTimers ==
    /\ CtlFree
    /\ timers' = [k \in TimerObjs |->
                    IF \E i \in Ids : active_timers[i] = k
                    THEN [timer_cancel(timers[k]) EXCEPT !.swept = TRUE]
                    ELSE timers[k]]
    /\ active_timers' = [i \in Ids |-> NoTimerObj]
    /\ ctl' = [NoCtl EXCEPT !.op = "cleanup", !.st = "returned"]
    /\ UNCHANGED <<cur_id, id_used>>
    /\ UNCHANGED <<slots, dvars, rvars>>

\* A restore_previous that never sleeps.
wait_for_rate_limit_none(age) == 0

\* _wait_for_rate_limit: the sleep restore_previous takes before it
\* restores, given the time since write_time.
wait_for_rate_limit(age) ==
    IF rate_limit_seconds - age > 0
    THEN rate_limit_seconds - age + RATE_LIMIT_BUFFER
    ELSE 0

\* A restore_previous that takes the client's queue_lock for its sleep.
TimerExpires_locked(k) ==
    /\ timers[k].st = "pending"
    /\ timers[k].remaining = 0
    /\ queue_lock = NoThread
    /\ queue_lock' = CallbackThread(k)
    /\ timers' = [timers EXCEPT ![k].st = "firing",
                                ![k].wait = wait_for_rate_limit(timers[k].age)]
    /\ UNCHANGED <<active_timers, cur_id, id_used, ctl>>
    /\ UNCHANGED <<slots, rvars, last_send_age, message_queue, processing_queue,
                   queue_timer, pc, call, next_cmd, queue_sent, evicted,
                   discarded, since_success>>

\* The interval of a started Timer elapses and restore_previous begins.
TimerExpires(k) ==
    /\ timers[k].st = "pending"
    /\ timers[k].remaining = 0
    /\ timers' = [timers EXCEPT ![k].st = "firing",
                                ![k].wait = wait_for_rate_limit(timers[k].age)]
    /\ UNCHANGED <<active_timers, cur_id, id_used, ctl>>
    /\ UNCHANGED <<slots, dvars, rvars>>

\* _normalize_layout: the list to write, <<>> for None.
normalize_layout(layout_data) ==
    LET parsed == IF Head(layout_data) = "str" THEN Tail(layout_data) ELSE layout_data
        layout == IF Head(parsed) = "dict" THEN Tail(parsed) ELSE parsed
    IN IF Head(layout_data) = "str" /\ Head(parsed) = "invalid"
       THEN <<>>
       ELSE IF Head(layout) \notin {"list_board", "list_other"}
       THEN <<>>
       ELSE layout

\* restore_from_data up to its device write: the layout handed to
\* write_message, <<>> when it returns False before.
restore_from_data(save_data) ==
    IF save_data.layout = <<>>
    THEN <<>>
    ELSE normalize_layout(save_data.layout)

\* on_restore_message of restore_from_slot: the layout it has written by
\* write_message, <<>> when it writes nothing.
on_restore_message(payload) ==
    IF payload.body # "object"
    THEN <<>>
    ELSE restore_from_data(payload)

\* restore_previous calls restore_callback once its sleep is over; an
\* exception of the callback ends restore_previous.  A callback that
\* returns has asked for the slot's retained message, and the restore
\* writes what on_restore_message makes of it.
RestoreCallback(k, raises, supplied) ==
    /\ timers[k].st = "firing"
    /\ timers[k].wait = 0
    /\ LET slot == timers[k].slot
           payload == IF slot = SuppliedSlot THEN supplied
                      ELSE IF slots[slot] THEN SavedPayload
                      ELSE AbsentPayload
       IN timers' = [timers EXCEPT
                        ![k].st = IF raises THEN "raised" ELSE "returned",
                        ![k].age = 0,
                        ![k].lag = 0,
                        ![k].restored = ~raises,
                        ![k].wrote = ~raises /\ on_restore_message(payload) # <<>>]
    /\ UNCHANGED <<active_timers, cur_id, id_used, ctl>>
    /\ UNCHANGED <<slots, dvars, rvars>>

RestoreReturns(k) ==
    \E supplied \in {SavedPayload, AbsentPayload} : RestoreCallback(k, FALSE, supplied)
RestoreReturnsSaved(k) == RestoreCallback(k, FALSE, SavedPayload)
RestoreRaises(k) == RestoreCallback(k, TRUE, AbsentPayload)

\* restore_previous, last statement: active_timers.pop(timer_id, None).
\* The callback is over and its restore_slot is read no more.
RestorePop(k) ==
    /\ timers[k].st = "returned"
    /\ timers' = [timers EXCEPT ![k].st = "finished",
                                ![k].slot = SuppliedSlot,
                                ![k].captured = "no"]
    /\ active_timers' = [active_timers EXCEPT ![timers[k].id] = NoTimerObj]
    /\ UNCHANGED <<cur_id, id_used, ctl>>
    /\ UNCHANGED <<slots, dvars, rvars>>

\* The Timers after one tick: a pending Timer is a tick nearer to its
\* expiry, a sleeping callback a tick nearer to the end of its sleep, and
\* time.time() - write_time grows for both.
TimersAfterTick ==
    [k \in TimerObjs |->
        IF timers[k].st = "pending"
        THEN [timers[k] EXCEPT !.remaining = @ - 1,
                               !.age = Min(@ + 1, rate_limit_seconds)]
        ELSE IF timers[k].st = "firing"
        THEN [timers[k] EXCEPT !.wait = IF @ > 0 THEN @ - 1 ELSE 0,
                               !.age = Min(@ + 1, rate_limit_seconds)]
        ELSE timers[k]]

\* One tick passes for the Timers and the sleeping callbacks.  A Timer
\* that is due expires before the next tick.
TimerTick ==
    /\ \A k \in TimerObjs : ~(timers[k].st = "pending" /\ timers[k].remaining = 0)
    /\ \E k \in TimerObjs : timers[k].st \in {"pending", "firing"}
    /\ timers' = TimersAfterTick
    /\ UNCHANGED <<active_timers, cur_id, id_used, ctl>>
    /\ UNCHANGED <<slots, dvars, rvars>>

\* time.time() moves into the next second.
NextSecond ==
    /\ id_used
    /\ cur_id < MaxTimers
    /\ cur_id' = cur_id + 1
    /\ id_used' = FALSE
    /\ UNCHANGED <<active_timers, timers, ctl>>
    /\ UNCHANGED <<slots, dvars, rvars>>

\* The registry and the Timers under schedule, cancel, shutdown and the
\* Timer callbacks.  Every call names its restore slot and the slot holds a
\* saved state.
TimerNext ==
    \/ ScheduleCall(TRUE, FALSE)
    \/ ScheduleWriteOk
    \/ ScheduleWriteFails
    \/ \E i \in Ids : CancelTimedMessage(i)
    \/ CleanupAllTimers
    \/ \E k \in TimerObjs : TimerExpires(k)
    \/ \E k \in TimerObjs : RestoreReturnsSaved(k)
    \/ \E k \in TimerObjs : RestoreRaises(k)
    \/ \E k \in TimerObjs : RestorePop(k)
    \/ TimerTick
    \/ NextSecond

TimerSpec == Init /\ [][TimerNext]_vars

\* The timed display from capture to restore: calls with and without a
\* restore slot, captures that succeed or fail, and supplied slots with and
\* without a saved state; no cancel and no shutdown.
TimedNext ==
    \/ \E given \in BOOLEAN, saved \in BOOLEAN : ScheduleCall(given, saved)
    \/ ScheduleWriteOk
    \/ ScheduleWriteFails
    \/ \E k \in TimerObjs : TimerExpires(k)
    \/ \E k \in TimerObjs : RestoreReturns(k)
    \/ \E k \in TimerObjs : RestoreRaises(k)
    \/ \E k \in TimerObjs : RestorePop(k)
    \/ TimerTick
    \/ NextSecond

TimedSpec == Init /\ [][TimedNext]_vars

\* -------------------------------------------------- render parameters
\* Default of a restore parameter: only None falls back to the timed
\* message's value.
final_restore_inherit(restore_value, value) == value

final_restore(restore_value, value) ==
    IF restore_value # "None" THEN restore_value ELSE value

\* schedule_timed_message(message, duration, strategy=.., step_interval_ms=..,
\* step_size=.., restore_strategy=.., ..) as far as the render parameters
\* go: the timed write is animated when a strategy is given and the client
\* is the local one; a failed write returns before the defaults are taken
\* and before a Timer exists.
ScheduleRender(params, restore_params, local, success) ==
    /\ render.st # "armed"
    /\ render' = [st |-> IF success THEN "armed" ELSE "failed",
                  timed |-> params,
                  restore |-> restore_params,
                  animated |-> (params["strategy"] # "None" /\ local),
                  final |-> IF success
                            THEN [p \in ParamNames |->
                                     final_restore(restore_params[p], params[p])]
                            ELSE NoParams,
                  passed |-> NoParams]
    /\ UNCHANGED <<dvars, tvars, retained, restore, listing>>

\* The Timer fires: restore_previous calls restore_callback(restore_slot,
\* strategy=final_restore_strategy, step_interval_ms=.., step_size=..).
FireRender ==
    /\ render.st = "armed"
    /\ render' = [render EXCEPT !.st = "called", !.passed = render.final]
    /\ UNCHANGED <<dvars, tvars, retained, restore, listing>>

RenderNext ==
    \/ \E params \in [ParamNames -> ParamValues],
          restore_params \in [ParamNames -> ParamValues],
          local \in BOOLEAN, success \in BOOLEAN :
             ScheduleRender(params, restore_params, local, success)
    \/ FireRender

RenderSpec == Init /\ [][RenderNext]_vars

\* ------------------------------------------- the bridge's restore callback
\* VestaboardMQTTBridge hands its method restore_from_slot(self, slot) to
\* the TimerManager as restore_callback: the parameters a call may name.
restore_from_slot_params == {"slot"}

\* A Python call that names a keyword the callee does not declare raises
\* TypeError before the callee's body runs.
call_raises(keywords, params) == ~(keywords \subseteq params)

\* restore_previous of a Timer the bridge's TimerManager made: it calls
\* restore_from_slot with the keywords strategy, step_interval_ms, step_size.
BridgeRestore(k) ==
    \E supplied \in {SavedPayload, AbsentPayload} :
        RestoreCallback(k, call_raises(ParamNames, restore_from_slot_params),
                        supplied)

\* The timed display of VestaboardMQTTBridge: the TimerManager with
\* restore_from_slot as its callback.  restore_previous never gets past
\* the call, so the pop that follows it is no step of this specification.
BridgeNext ==
    \/ \E given \in BOOLEAN, saved \in BOOLEAN : ScheduleCall(given, saved)
    \/ ScheduleWriteOk
    \/ ScheduleWriteFails
    \/ \E k \in TimerObjs : TimerExpires(k)
    \/ \E k \in TimerObjs : BridgeRestore(k)
    \/ TimerTick
    \/ NextSecond

BridgeSpec == Init /\ [][BridgeNext]_vars

\* ---------------------------------------------- the time of the timed write
\* A tick passes while write_message of a schedule_timed_message call is
\* in progress (the device request of a direct send): write_time, taken
\* after the call returns, is a tick later than the call.
WriteTakesTime ==
    /\ ctl.op = "schedule" /\ ctl.st = "writing"
    /\ ctl.lag < MaxLag
    /\ \A k \in TimerObjs : ~(timers[k].st = "pending" /\ timers[k].remaining = 0)
    /\ ctl' = [ctl EXCEPT !.lag = @ + 1]
    /\ timers' = TimersAfterTick
    /\ UNCHANGED <<active_timers, cur_id, id_used>>
    /\ UNCHANGED <<slots, dvars, rvars>>

\* A tick passes while no timed write is in progress.
IdleTick ==
    /\ ~(ctl.op = "schedule" /\ ctl.st = "writing")
    /\ TimerTick

\* Timed messages with the time of their writes counted: every tick is
\* either one of a write in progress or one between the calls.
WaitNext ==
    \/ ScheduleCall(TRUE, FALSE)
    \/ ScheduleWriteOk
    \/ ScheduleWriteFails
    \/ WriteTakesTime
    \/ \E k \in TimerObjs : TimerExpires(k)
    \/ \E k \in TimerObjs : RestoreReturnsSaved(k)
    \/ \E k \in TimerObjs : RestorePop(k)
    \/ IdleTick
    \/ NextSecond

WaitSpec == Init /\ [][WaitNext]_vars

\* ------------------------------------------------------- restore_from_slot
\* A retained publish on states/<slot>: the broker keeps the message, or
\* drops the retained one when the payload is empty, and sends it to the
\* subscription of a restore request that is waiting.
Publish(payload) ==
    /\ retained' = IF payload = EmptyPayload THEN AbsentPayload ELSE payload
    /\ restore' = IF restore.st = "waiting" /\ restore.msg = AbsentPayload
                  THEN [restore EXCEPT !.msg = payload]
                  ELSE restore
    /\ UNCHANGED <<dvars, tvars, render, listing>>

\* save_current_state(slot) that succeeds.
SaveState == Publish(SavedPayload)

\* delete_saved_state(slot).
DeleteState == Publish(EmptyPayload)

\* A retained message of an earlier version or of another client.
OtherPublish ==
    \E payload \in Payloads \ {AbsentPayload, EmptyPayload} : Publish(payload)

\* restore_from_slot(slot), one request at a time: on_restore_message is
\* registered for the topic and the topic subscribed; the broker answers
\* with the retained message if there is one.
RestoreFromSlot ==
    /\ restore.st # "waiting"
    /\ restore' = [st |-> "waiting", msg |-> retained, found |-> retained,
                   written |-> FALSE]
    /\ UNCHANGED <<dvars, tvars, render, retained, listing>>

\* The MQTT thread calls on_restore_message with the message; the callback
\* unsubscribes and removes itself when it is done.
OnRestoreMessage ==
    /\ restore.st = "waiting"
    /\ restore.msg # AbsentPayload
    /\ restore' = [restore EXCEPT !.st = "done", !.msg = AbsentPayload,
                                  !.written = on_restore_message(restore.msg) # <<>>]
    /\ UNCHANGED <<dvars, tvars, render, retained, listing>>

RestoreNext ==
    \/ SaveState
    \/ DeleteState
    \/ OtherPublish
    \/ RestoreFromSlot
    \/ OnRestoreMessage

RestoreSpec == Init /\ [][RestoreNext]_vars

\* -------------------------------------------- TimerManager and dispatcher
\* schedule_timed_message with a restore slot, called when no other timed
\* message is registered.
ScheduleAlone ==
    /\ active_timers = [i \in Ids |-> NoTimerObj]
    /\ ScheduleCall(TRUE, FALSE)

\* One timed message at a time next to the callers of the client and its
\* queue timer: restore_previous sleeps and calls back while write_message
\* and _process_queue run on their own threads.
CoupledNext ==
    \/ Tick
    \/ \E t \in Writers : WriteMessage(t)
    \/ \E t \in Writers : QueueMessage(t)
    \/ \E t \in Writers : DirectRequest(t)
    \/ \E t \in Writers : DirectSuccess(t)
    \/ \E t \in TimerThreads : TimerFire(t)
    \/ \E t \in TimerThreads : ProcessQueueEnter(t)
    \/ \E t \in TimerThreads : ProcessQueueRequest(t)
    \/ \E t \in TimerThreads : ProcessQueueSuccess(t)
    \/ \E t \in Threads : Return(t)
    \/ ScheduleAlone
    \/ ScheduleWriteOk
    \/ \E k \in TimerObjs : TimerExpires(k)
    \/ \E k \in TimerObjs : RestoreReturnsSaved(k)
    \/ \E k \in TimerObjs : RestorePop(k)
    \/ TimerTick

CoupledSpec == Init /\ [][CoupledNext]_vars

\* ------------------------------------------------- get_timer_info_list
\* The ids in active_timers.
Registered == {i \in Ids : active_timers[i] # NoTimerObj}

\* get_timer_info_list begins: the loop takes an iterator over
\* self.active_timers.items(), the dict itself.  The caller is the thread
\* that also schedules and cancels, so none of its calls is in progress.
ListStart ==
    /\ CtlFree
    /\ listing.st # "iterating"
    /\ listing' = [st |-> "iterating", used |-> Cardinality(Registered),
                   pos |-> 0, out |-> {}]
    /\ UNCHANGED <<dvars, tvars, render, retained, restore>>

\* The loop asks the iterator for the next item: a dict whose size is no
\* longer the one the iterator took raises RuntimeError; otherwise the next
\* entry is appended with timer.is_alive(), and the list is returned when
\* there is none.
ListStep ==
    /\ listing.st = "iterating"
    /\ LET rest == {i \in Registered : i > listing.pos} IN
       listing' =
          IF Cardinality(Registered) # listing.used
          THEN [listing EXCEPT !.st = "raised", !.out = {}]
          ELSE IF rest = {}
          THEN [listing EXCEPT !.st = "returned"]
          ELSE LET i == CHOOSE i \in rest : \A j \in rest : i <= j
               IN [listing EXCEPT !.pos = i, !.out = @ \cup {i}]
    /\ UNCHANGED <<dvars, tvars, render, retained, restore>>

\* A schedule_timed_message call of the thread that also lists: not while
\* it is inside get_timer_info_list.
ScheduleBetweenLists ==
    /\ listing.st # "iterating"
    /\ ScheduleCall(TRUE, FALSE)

\* The listing next to the Timers: the Timers' threads fire, restore and
\* pop their ids while the loop runs.
ListNext ==
    \/ ScheduleBetweenLists
    \/ ScheduleWriteOk
    \/ \E k \in TimerObjs : TimerExpires(k)
    \/ \E k \in TimerObjs : RestoreReturnsSaved(k)
    \/ \E k \in TimerObjs : RestorePop(k)
    \/ TimerTick
    \/ NextSecond
    \/ ListStart
    \/ ListStep

ListSpec == Init /\ [][ListNext]_vars

\* ------------------------------------------------------------ histories
\* The command a _process_queue thread has popped and not yet sent.
Popped ==
    LET held == {t \in TimerThreads : pc[t] = "pq_send"}
    IN  IF held = {} THEN <<>> ELSE <<call[CHOOSE t \in held : TRUE].cmd>>

\* The commands that have entered the queue, in the order they entered.
Enqueued == [i \in 1..(next_cmd - 1) |-> i]

IsKept(c) == c \notin evicted \cup discarded

\* The enqueued commands that neither overflow nor cleanup dropped, in the
\* order they were enqueued.
Kept == SelectSeq(Enqueued, IsKept)

NoDuplicates(s) == \A i, j \in 1..Len(s) : s[i] = s[j] => i = j

\* A device send is initiated by thread t in this step.
Initiates(t) == call'[t].requests > call[t].requests

\* The device answers thread t in this step.
Answered(t, result) == call[t].device = "none" /\ call'[t].device = result

\* ---------------------------------------------------------------- claims
\* C1: no device send is initiated while less than rate_limit_seconds has
\* elapsed since the last successful send, whatever the interleaving of
\* write_message, write_animated_message and _process_queue.
C1_RateCeiling ==
    [][\A t \in Threads : Initiates(t) => since_success >= rate_limit_seconds]_vars

\* C2: with fair timers, every device write succeeding and no cleanup, a
\* command in the queue is eventually sent to the device unless overflow
\* evicts it.  Checked under LiveSpec.
C2_EventualDelivery ==
    \A c \in Cmds :
        (c \in Range(message_queue)) ~> (c \in Range(queue_sent) \/ c \in evicted)

\* C3: the device receives the queued commands in the order they were
\* enqueued: the commands not dropped are, in enqueue order, those already
\* sent from the queue, the one popped, and those still waiting.
C3_Fifo == Kept = queue_sent \o Popped \o message_queue

C3_Witness ==
    /\ Len(queue_sent) >= 2
    /\ evicted = {}
    /\ discarded = {}
    /\ message_queue = <<>>

\* C4: the queue never holds more than max_queue_size commands.
C4_QueueBound == Len(message_queue) <= max_queue_size

C4_Witness == Len(message_queue) = max_queue_size /\ evicted # {}

\* C5: overflow removes the oldest waiting command, never the one being
\* enqueued, and keeps the order of the survivors; an evicted command is
\* never sent.
C5_OldestEvicted ==
    /\ \A e \in evicted :
          /\ e \notin Range(queue_sent)
          /\ e \notin Range(message_queue)
          /\ \A t \in TimerThreads : call[t].cmd # e
          /\ \A c \in Range(message_queue) : e < c
    /\ next_cmd - 1 \notin evicted
    /\ \A i, j \in 1..Len(message_queue) :
          i < j => message_queue[i] < message_queue[j]

C5_Witness ==
    /\ evicted # {}
    /\ discarded = {}
    /\ Len(queue_sent) = max_queue_size
    /\ \A e \in evicted : \A i \in 1..Len(queue_sent) : e < queue_sent[i]

\* C6: write_message with the gate open bypasses the queue, makes exactly
\* one device call and returns its result; with the gate closed it makes no
\* device call, appends the command to the queue and returns True.
C6_Routing ==
    \A t \in Writers :
        call[t].op = "write_message" =>
            IF call[t].gate
            THEN /\ call[t].cmd \notin Range(Enqueued)
                 /\ pc[t] \in {"wm_send", "wm_inflight", "done"}
                 /\ pc[t] = "wm_send" => call[t].requests = 0
                 /\ pc[t] = "wm_inflight" => call[t].requests = 1
                 /\ pc[t] = "done" =>
                       /\ call[t].requests = 1
                       /\ call[t].device \in {"ok", "fail"}
                       /\ call[t].ret = IF call[t].device = "ok" THEN "True" ELSE "False"
            ELSE /\ call[t].requests = 0
                 /\ call[t].device = "none"
                 /\ pc[t] \in {"wm_queue", "done"}
                 /\ pc[t] = "wm_queue" => call[t].cmd \notin Range(Enqueued)
                 /\ pc[t] = "done" =>
                       /\ call[t].cmd \in Range(Enqueued)
                       /\ call[t].ret = "True"

C6_Witness ==
    \E t \in Writers :
        /\ call[t].op = "write_message"
        /\ ~call[t].gate
        /\ pc[t] = "done"
        /\ call[t].cmd \in Range(message_queue)
        /\ \E u \in TimerThreads : call[u].device = "fail"

C8_AtMostOnce ==
    /\ NoDuplicates(queue_sent)
    /\ NoDuplicates(message_queue)
    /\ \A c \in Range(message_queue) \cup Range(Popped) \cup evicted \cup discarded :
          c \notin Range(queue_sent)
    /\ Range(Popped) \cap Range(message_queue) = {}
    /\ \A t \in Threads :
          /\ call[t].requests <= 1
          /\ call[t].device # "none" => call[t].requests = 1
          /\ pc[t] \in {"wm_inflight", "wa_inflight", "pq_inflight"} => call[t].requests = 1
          /\ pc[t] \in {"wm_send", "wa_send", "pq_send", "wm_queue"} => call[t].requests = 0
    /\ \A t \in TimerThreads :
          call[t].requests = 1 => call[t].cmd \in Range(queue_sent)
    /\ \A t \in Writers :
          /\ call[t].requests = 1 => call[t].cmd \notin Range(Enqueued)
          /\ call[t].cmd \in Range(Enqueued) => call[t].requests = 0

C8_Witness ==
    /\ Len(queue_sent) >= 1
    /\ message_queue # <<>>
    /\ \E t \in Writers : call[t].requests = 1 /\ call[t].device = "ok"

\* C9: after a successful send _can_send_now() is false until
\* rate_limit_seconds have elapsed since that success.
C9_GateMonotonic == since_success < rate_limit_seconds => ~can_send_now

C9_Witness ==
    /\ since_success = rate_limit_seconds - 1
    /\ ~can_send_now
    /\ Len(queue_sent) >= 2

\* C10: last_send_time is modified only by a send that succeeded; a failed
\* send, direct or from the queue, returns False and leaves it unchanged.
C10_GateOnlyOnSuccess ==
    [][/\ \A t \in Threads :
             Answered(t, "fail") =>
                 /\ last_send_age' = last_send_age
                 /\ call'[t].ret = "False"
       /\ last_send_age' < last_send_age => \E t \in Threads : Answered(t, "ok")]_vars

C10_Witness ==
    /\ can_send_now
    /\ since_success = rate_limit_seconds
    /\ \E t \in Writers : call[t].device = "fail" /\ call[t].ret = "False"
    /\ \E t \in TimerThreads : call[t].device = "fail" /\ call[t].ret = "False"
    /\ queue_sent # <<>>

\* No _process_queue attempt is pending or running, and commands wait.
Stalled ==
    /\ message_queue # <<>>
    /\ ~processing_queue
    /\ ~queue_timer.armed
    /\ \A t \in TimerThreads : pc[t] \in {"idle", "done"}

\* A caller thread completes _queue_message in this step.
Enqueues(t) == pc[t] = "wm_queue" /\ pc'[t] = "done"

\* C11: when the device write of a dequeued command fails, the command is
\* gone (not back in the queue, not sent again), the waiting commands are
\* untouched, the callback arms no timer and leaves processing_queue false;
\* from the stalled queue only an enqueue arms a timer.
C11_FailedQueuedSend ==
    [][/\ \A t \in TimerThreads :
             Answered(t, "fail") =>
                 /\ message_queue' = message_queue
                 /\ queue_sent' = queue_sent
                 /\ call[t].cmd \notin Range(message_queue')
                 /\ queue_timer' = queue_timer
                 /\ ~processing_queue'
       /\ (Stalled /\ (queue_timer'.armed \/ processing_queue')) =>
             \E t \in Writers : Enqueues(t)]_vars

C11_Witness ==
    /\ Stalled
    /\ discarded = {}
    /\ \E t \in TimerThreads : pc[t] = "done" /\ call[t].device = "fail"

\* C12: when cleanup returns the queue is empty, no timer is pending and
\* processing_queue is false; a command cleanup discarded is never sent
\* afterwards, also when a timer callback had fired and was waiting for the
\* lock.
C12_CleanupDrains ==
    [][/\ discarded' # discarded =>
             /\ message_queue' = <<>>
             /\ queue_timer' = NoTimer
             /\ ~processing_queue'
       /\ \A c \in discarded' :
             /\ c \notin Range(queue_sent')
             /\ c \notin Range(message_queue')
             /\ \A t \in TimerThreads : call'[t].cmd # c]_vars

\* Cleanup has discarded commands while a fired callback waits for the lock.
C12_Witness ==
    /\ discarded # {}
    /\ message_queue = <<>>
    /\ queue_timer = NoTimer
    /\ ~processing_queue
    /\ \E t \in TimerThreads : pc[t] = "pq_wait"

\* The code assigns self.queue_timer in this step (a new Timer or None); the
\* countdown and the firing of a timer are not assignments.
HandleAssigned ==
    \/ queue_timer'.set # queue_timer.set
    \/ queue_timer'.armed /\ ~queue_timer.armed
    \/ queue_timer'.remaining > queue_timer.remaining

C14_AnimatedDropped ==
    [][\A t \in Writers :
          /\ (pc[t] = "idle" /\ call'[t].op = "write_animated_message"
                /\ call'[t].valid /\ ~can_send_now) =>
                /\ pc'[t] = "done"
                /\ call'[t].ret = "False"
                /\ call'[t].requests = 0
                /\ message_queue' = message_queue
                /\ queue_timer' = queue_timer
                /\ processing_queue' = processing_queue
                /\ last_send_age' = last_send_age
          /\ call'[t].op = "write_animated_message" =>
                /\ call'[t].cmd = 0
                /\ pc'[t] # "wm_queue"
                /\ call'[t].requests > 0 => call'[t].gate]_vars

C14_Witness ==
    \E t \in Writers :
        /\ pc[t] = "done"
        /\ call[t].op = "write_animated_message"
        /\ call[t].valid
        /\ ~call[t].gate
        /\ call[t].ret = "False"
        /\ message_queue # <<>>
        /\ queue_timer.armed
        /\ ~can_send_now

\* ------------------------------------------------------- timer histories
\* The Timer object is over: cancelled, or its callback has ended.
TimerOver(k) == timers[k].st \in {"cancelled", "finished", "raised"}

\* The last call of the control thread was cancel_timed_message of the id
\* of Timer k, and it met Timer k or no Timer at all.
CancelledAgainst(k) ==
    /\ ctl.op = "cancel"
    /\ ctl.id = timers[k].id
    /\ ctl.timer \in {k, NoTimerObj}

\* C15: fire/cancel race.  For every Timer, the restore is never performed
\* when cancel_timed_message has returned True for it, and once the Timer is
\* over after a cancel of its id, one of the two has happened: the restore
\* was performed or the cancel returned True.
C15_FireCancelRace ==
    \A k \in TimerObjs :
        /\ ~(timers[k].restored /\ timers[k].cancel_true)
        /\ (TimerOver(k) /\ CancelledAgainst(k)) =>
               (timers[k].restored \/ timers[k].cancel_true)

\* The id of Timer k is in active_timers and stands for Timer k.
InRegistry(k) ==
    /\ timers[k].id \in Ids
    /\ active_timers[timers[k].id] = k

\* restore_previous of Timer k has started.
Fired(k) == timers[k].st \in {"firing", "returned", "raised", "finished"}

\* Timer k was cancelled, or cancel_timed_message returned True for it.
Cancelled(k) == timers[k].st = "cancelled" \/ timers[k].cancel_true

\* The steps a Timer takes: Pending to Firing to the end of its callback,
\* or Pending to Cancelled.
LifecycleSteps ==
    {<<"unused", "pending">>, <<"pending", "firing">>, <<"pending", "cancelled">>,
     <<"firing", "returned">>, <<"firing", "raised">>, <<"returned", "finished">>}

\* C16: timer lifecycle.  Every Timer moves only along Pending -> Firing ->
\* Removed or Pending -> Cancelled -> Removed; it is never both fired and
\* cancelled; its restore is performed at most once; and once its id has
\* left active_timers, the id does not stand for this Timer again.
C16_TimerLifecycle ==
    [][\A k \in TimerObjs :
          /\ timers'[k].st # timers[k].st =>
                <<timers[k].st, timers'[k].st>> \in LifecycleSteps
          /\ ~(Fired(k)' /\ Cancelled(k)')
          /\ timers[k].restored =>
                (timers'[k].restored /\ timers'[k].st \in {"returned", "finished"})
          /\ (timers[k].st # "unused" /\ ~InRegistry(k)) => ~InRegistry(k)']_vars

\* The step is a call of cancel_timed_message.
CancelStep == ctl'.op = "cancel" /\ ctl' # ctl

\* The id is in active_timers and its Timer has not expired.
PresentAndPending(timer_id) ==
    /\ active_timers[timer_id] # NoTimerObj
    /\ timers[active_timers[timer_id]].st = "pending"

\* C17: cancel semantics.  cancel_timed_message(id) returns True exactly
\* when the id is in active_timers and its Timer is still pending, and then
\* the Timer is cancelled and the id removed; in every other case it returns
\* False and leaves active_timers and the Timers as they were.
C17_CancelSemantics ==
    [][CancelStep =>
          LET timer_id == ctl'.id IN
          /\ ctl'.ret = "True" <=> PresentAndPending(timer_id)
          /\ PresentAndPending(timer_id) =>
                /\ timers'[active_timers[timer_id]].st = "cancelled"
                /\ active_timers'[timer_id] = NoTimerObj
          /\ ~PresentAndPending(timer_id) =>
                /\ ctl'.ret = "False"
                /\ active_timers' = active_timers
                /\ timers' = timers]_vars

\* restore_previous of Timer k has run to its end, by return or by an
\* exception.
CallbackOver(k) == timers[k].st \in {"finished", "raised"}

\* C18: unconditional removal after firing.  Once the callback of a Timer
\* has run, active_timers no longer holds the Timer under its id, whether
\* restore_callback returned or raised.
C18_RemovedAfterFiring ==
    \A k \in TimerObjs : CallbackOver(k) => ~InRegistry(k)

\* The step is the call of cleanup_all_timers.
CleanupStep == ctl'.op = "cleanup" /\ ctl.op # "cleanup"

\* C19: shutdown without orphan effects.  cleanup_all_timers leaves
\* active_timers empty and every pending Timer it found there cancelled, and
\* no restore is performed afterwards for a Timer it found there.
C19_ShutdownNoOrphans ==
    [][/\ CleanupStep =>
             /\ \A i \in Ids : active_timers'[i] = NoTimerObj
             /\ \A k \in TimerObjs :
                   (timers[k].st = "pending" /\ InRegistry(k)) => timers'[k].st = "cancelled"
       /\ \A k \in TimerObjs :
             (timers[k].swept /\ ~timers[k].restored) => ~timers'[k].restored]_vars

\* The step is the return of schedule_timed_message.
ScheduleReturns == ctl.op = "schedule" /\ ctl.st = "writing" /\ ctl'.st = "returned"

\* C20: schedule registers the timer.  When schedule_timed_message returns
\* an id, a Timer has been started for it and active_timers holds that
\* Timer, pending, under the id; and the id keeps standing for the Timer
\* for as long as the Timer has neither expired nor been cancelled.
C20_ScheduleRegisters ==
    [][/\ ScheduleReturns =>
             /\ ctl'.ret = "id"
             /\ ctl'.timer # NoTimerObj
             /\ timers'[ctl'.timer].st = "pending"
             /\ timers'[ctl'.timer].id = ctl'.id
             /\ active_timers'[ctl'.id] = ctl'.timer
       /\ \A k \in TimerObjs :
             (InRegistry(k) /\ timers[k].st = "pending" /\ timers'[k].st = "pending")
                => InRegistry(k)']_vars

\* The timed content write of a schedule_timed_message call is about to be
\* attempted.
WriteDue == ctl.op = "schedule" /\ ctl.st = "writing"

\* C21: capture-then-write ordering.  When the timed content write is due,
\* a call without a restore slot has already saved the current state and
\* holds the slot temp_<timer id>, and a call with a restore slot has saved
\* nothing and holds the supplied slot; the Timer the call starts is bound
\* to the slot the call held and keeps it until its callback is over, and
\* nothing is saved after the write.
C21_CaptureThenWrite ==
    [][/\ WriteDue' =>
             /\ ctl'.slot \in {SuppliedSlot, ctl'.id}
             /\ ctl'.slot = ctl'.id => ctl'.captured \in {"saved", "failed"}
             /\ ctl'.slot = SuppliedSlot => ctl'.captured = "no"
       /\ (WriteDue /\ ~WriteDue') =>
             /\ ctl'.captured = "no"
             /\ ctl'.timer # NoTimerObj => timers'[ctl'.timer].slot = ctl.slot
       /\ \A k \in TimerObjs :
             timers'[k].st \in {"pending", "firing", "returned"} /\ timers[k].st # "unused"
                => timers'[k].slot = timers[k].slot]_vars

C21_Witness ==
    /\ WriteDue
    /\ ctl.slot = SuppliedSlot
    /\ \E k \in TimerObjs :
          /\ timers[k].st = "pending"
          /\ timers[k].slot = timers[k].id

\* C22: capture failure does not block scheduling.  A call whose
\* save_current_state failed goes on to the timed write and, when the write
\* succeeds, starts its Timer; and when that Timer fires, its restore hands
\* nothing to write_message.
C22_CaptureFailure ==
    [][/\ ctl'.captured = "failed" => WriteDue'
       /\ \A k \in TimerObjs :
             (timers[k].st = "unused" /\ timers'[k].st # "unused" /\ ctl.captured = "failed")
                => (timers'[k].st = "pending" /\ timers'[k].captured = "failed")
       /\ \A k \in TimerObjs :
             timers[k].captured = "failed" => ~timers'[k].wrote]_vars


\* C23: for each of strategy, step_interval_ms and step_size on its own, the
\* value restore_callback is called with is the restore_* argument of the
\* schedule call when one was given, and the timed message's value otherwise.
C23_RestoreRenderParams ==
    render.st = "called" =>
        \A p \in ParamNames :
            render.passed[p] = IF render.restore[p] # "None"
                               THEN render.restore[p]
                               ELSE render.timed[p]

\* A callback was called with an overridden strategy, an inherited
\* step_interval_ms and no step_size at all.
C23_Witness ==
    /\ render.st = "called"
    /\ render.timed["strategy"] = "a" /\ render.restore["strategy"] = "b"
    /\ render.passed["strategy"] = "b"
    /\ render.timed["step_interval_ms"] = "a"
    /\ render.restore["step_interval_ms"] = "None"
    /\ render.passed["step_interval_ms"] = "a"
    /\ render.timed["step_size"] = "None" /\ render.restore["step_size"] = "None"


\* C24: a timed message scheduled without a restore slot on a device that
\* always succeeds is captured before it is written, and when its Timer has
\* fired and the courtesy wait is over, the restore hands the captured
\* snapshot to the device and returns, so that the id leaves the registry.
C24_EndToEnd ==
    [][\A k \in TimerObjs :
          /\ (timers[k].st = "unused" /\ timers'[k].st = "pending"
                  /\ timers'[k].slot = timers'[k].id)
                => timers'[k].captured # "no"
          /\ (timers[k].st = "firing" /\ timers'[k].st # "firing"
                  /\ timers[k].captured = "saved")
                => (timers'[k].st = "returned" /\ timers'[k].wrote)]_vars


\* The step in which restore_previous calls restore_callback.
RestoreStarts(k) == timers[k].st = "firing" /\ timers'[k].st # "firing"

\* The step in which the Timer's interval elapses and restore_previous
\* takes its sleep.
Fires(k) == timers[k].st = "pending" /\ timers'[k].st = "firing"

\* C25 with writeInstant taken as the code takes it, when the timed write
\* has returned (write_time): the restore never starts before write_time
\* plus the minimum interval; a callback that begins earlier sleeps the
\* remainder plus the 0.5 s margin, one that begins later does not sleep.
C25_CourtesyWait ==
    [][\A k \in TimerObjs :
          /\ RestoreStarts(k) => timers[k].age >= rate_limit_seconds
          /\ Fires(k) =>
                timers'[k].wait =
                    IF timers[k].age < rate_limit_seconds
                    THEN rate_limit_seconds - timers[k].age + RATE_LIMIT_BUFFER
                    ELSE 0]_vars

\* A callback is asleep for a timed message whose write took time.
C25_Witness ==
    \E k \in TimerObjs :
        timers[k].st = "firing" /\ timers[k].wait > 0 /\ timers[k].lag > 0

\* C25 as stated, with writeInstant the time the timed write was requested:
\* the time since then is the time since write_time plus the time the write
\* took.
C25_CourtesyWait_Requested ==
    [][\A k \in TimerObjs :
          LET since_request == timers[k].age + timers[k].lag IN
          /\ RestoreStarts(k) => since_request >= rate_limit_seconds
          /\ Fires(k) =>
                timers'[k].wait =
                    IF since_request < rate_limit_seconds
                    THEN rate_limit_seconds - since_request + RATE_LIMIT_BUFFER
                    ELSE 0]_vars


\* A layout restore_from_data can use: a list, as it is, as JSON text in a
\* string, inside a "message" object, or both.
UsableLayouts ==
    {w \o <<b>> : w \in {<<>>, <<"str">>, <<"dict">>, <<"str", "dict">>},
                  b \in {"list_board", "list_other"}}

\* The slot's retained message resolves to a state to restore.
Resolvable(payload) == payload.body = "object" /\ payload.layout \in UsableLayouts

\* C26: a restore request that found its slot never saved, deleted, not
\* JSON or without a usable layout never hands anything to write_message.
C26_NoWriteWithoutState == ~Resolvable(restore.found) => ~restore.written


\* The queue's processing loop is running: a processing timer is pending
\* or a _process_queue call is under way.
LoopAlive ==
    \/ queue_timer.armed
    \/ \E t \in TimerThreads : pc[t] \in {"pq_wait", "pq_send", "pq_inflight"}

\* C27: a device write that fails inside _process_queue costs that command
\* only: the processing loop is not stopped for the commands still queued,
\* which without it are never processed unless a later enqueue arrives; a
\* restore that fails or raises in a fired Timer leaves the other Timers
\* as they are.
C27_FailureIsolation ==
    [][/\ \A t \in TimerThreads :
             (Answered(t, "fail") /\ message_queue' # <<>>) => LoopAlive'
       /\ \A k \in TimerObjs :
             (timers[k].st = "firing" /\ timers'[k].st \in {"raised", "returned"})
                => \A j \in TimerObjs \ {k} : timers'[j] = timers[j]]_vars


\* C28: a fired callback of the TimerManager, asleep in its courtesy wait
\* or calling back, never owns the client's queue_lock, and while it runs
\* the lock is free or held by a _process_queue call that is sending and
\* gives it up by itself; no step of a callback changes the state of the
\* queue, and no step of the queue changes a Timer.
C28_NoLockCoupling ==
    [][/\ \A k \in TimerObjs :
             timers'[k].st \in {"firing", "returned", "raised"} =>
                 /\ queue_lock' # CallbackThread(k)
                 /\ queue_lock' # NoThread =>
                       /\ queue_lock' \in TimerThreads
                       /\ pc'[queue_lock'] \in {"pq_send", "pq_inflight"}
       /\ tvars' # tvars => dvars' = dvars
       /\ dvars' # dvars => tvars' = tvars]_vars

\* A callback is asleep while _process_queue holds the lock for its send
\* and a command is still queued.
C28_Witness ==
    /\ \E k \in TimerObjs : timers[k].st = "firing" /\ timers[k].wait > 0
    /\ queue_lock \in TimerThreads
    /\ message_queue # <<>>


\* C29: get_timer_info_list changes neither the registry nor a Timer, and
\* it ends by returning one entry for every id that is in active_timers,
\* also when Timers fire while it enumerates.
C29_ListingReadOnly ==
    [][/\ listing' # listing =>
             (active_timers' = active_timers /\ timers' = timers)
       /\ (listing.st = "iterating" /\ listing'.st # "iterating") =>
             (listing'.st = "returned" /\ listing'.out = Registered')]_vars


\* The _process_queue call of thread t gets the lock in this step and finds
\* commands queued and the gate closed.
EarlyFire(t) ==
    /\ pc[t] = "pq_wait" /\ pc'[t] # "pq_wait"
    /\ message_queue # <<>>
    /\ ~can_send_now

\* C30: a _process_queue call that finds commands queued and the gate
\* closed pops nothing, makes no device request, leaves the queue and
\* last_send_time as they are, and arms a processing timer for the rest of
\* the interval before it returns.
C30_EarlyFireRearm ==
    [][\A t \in TimerThreads :
          EarlyFire(t) =>
              /\ message_queue' = message_queue
              /\ queue_sent' = queue_sent
              /\ \A u \in Threads : ~Initiates(u)
              /\ last_send_age' = last_send_age
              /\ pc'[t] = "idle"
              /\ queue_lock' = NoThread
              /\ processing_queue'
              /\ queue_timer'.armed
              /\ queue_timer'.remaining = rate_limit_seconds - last_send_age]_vars

\* A _process_queue call is about to find the gate closed by a direct send
\* made since its timer was armed: commands wait and no timer is pending.
C30_Witness ==
    \E t \in TimerThreads :
        /\ pc[t] = "pq_wait"
        /\ queue_lock = NoThread
        /\ message_queue # <<>>
        /\ ~can_send_now
        /\ ~queue_timer.armed


\* A step in which _schedule_queue_processing is called: by _queue_message
\* when processing_queue is clear (line 94), by _process_queue on a closed
\* gate (line 131) or after a successful send with commands left (line 141).
Arms(t) ==
    \/ Enqueues(t) /\ ~processing_queue
    \/ EarlyFire(t)
    \/ /\ t \in TimerThreads
       /\ Answered(t, "ok")
       /\ message_queue # <<>>

\* C31: _schedule_queue_processing leaves exactly one timer pending, the
\* handle's, with as delay the rest of the rate-limit window or
\* QUEUE_PROCESSING_DELAY when the gate is open; no timer is ever pending
\* besides the handle's; a firing disarms the timer, and a _process_queue
\* call is started only by a firing and initiates at most one device send.
C31_SingleTimer ==
    [][/\ queue_timer'.orphans = 0
       /\ \A t \in Threads :
             Arms(t) =>
                /\ queue_timer'.armed
                /\ processing_queue'
                /\ queue_timer'.remaining =
                      IF last_send_age' >= rate_limit_seconds
                      THEN QUEUE_PROCESSING_DELAY
                      ELSE rate_limit_seconds - last_send_age'
       /\ \A t \in TimerThreads :
             /\ (pc[t] # "pq_wait" /\ pc'[t] = "pq_wait") =>
                   /\ queue_timer.armed /\ queue_timer.remaining = 0
                   /\ ~queue_timer'.armed
             /\ (pc[t] # "pq_send" /\ pc'[t] = "pq_send") =>
                   /\ pc[t] = "pq_wait"
                   /\ Len(message_queue') = Len(message_queue) - 1
             /\ Initiates(t) =>
                   /\ pc[t] = "pq_send" /\ pc'[t] = "pq_inflight"
                   /\ call[t].requests = 0
                   /\ call'[t].requests = 1]_vars

\* A timer is pending while the callback that holds the lock is about to
\* re-arm: the cancel at line 107 has a pending timer to cancel.
C31_Witness ==
    /\ queue_timer.armed
    /\ ~processing_queue
    /\ message_queue # <<>>
    /\ \E t \in TimerThreads : pc[t] = "pq_inflight"


\* C32: a write_message call does not initiate its device send while a
\* command that an earlier, completed write_message call put in the queue
\* is still waiting there.
C32_NoOvertaking ==
    [][\A t \in Writers :
          (Initiates(t) /\ call[t].op = "write_message") =>
             message_queue = <<>>]_vars


\* ------------------------------------------ timed display through the client
\* The MQTT loop thread runs the handlers and the callbacks of the retained
\* messages: the write_message of schedule_timed_message, the plain
\* write_message calls and the write_message of a restore are calls of one
\* thread, the caller thread of the client.  One timed display at a time;
\* its restore slot is named and holds a saved state.

\* The caller thread is inside the write_message of a restore.
RestoreCalling == \E k \in TimerObjs : timers[k].rst = "calling"

\* A write_message call that belongs to no timed display.
PlainWrite(t) ==
    /\ CtlFree
    /\ ~RestoreCalling
    /\ WriteMessage(t)

\* The return of a _process_queue thread or of a plain write_message.
PlainReturn(t) ==
    /\ t \in Writers => CtlFree /\ ~RestoreCalling
    /\ Return(t)

\* schedule_timed_message up to and including the gate check of its
\* write_message (timers.py:65-89, cloud_client.py:88).
TimedCall(t) ==
    /\ CtlFree
    /\ ~RestoreCalling
    /\ active_timers = [i \in Ids |-> NoTimerObj]
    /\ \E k \in TimerObjs : timers[k].st = "unused"
    /\ IdleWriter(t)
    /\ can_send_now \/ next_cmd <= MaxCmds
    /\ ctl' = [op |-> "schedule", st |-> "writing", id |-> cur_id,
               ret |-> "none", timer |-> NoTimerObj, slot |-> SuppliedSlot,
               captured |-> "no", lag |-> 0]
    /\ id_used' = TRUE
    /\ call' = [call EXCEPT ![t] = [op |-> "write_message", cmd |-> 0,
                                    gate |-> can_send_now, valid |-> TRUE,
                                    requests |-> 0, device |-> "none", ret |-> "none"]]
    /\ pc' = [pc EXCEPT ![t] = IF can_send_now THEN "wm_send" ELSE "wm_queue"]
    /\ UNCHANGED <<active_timers, timers, cur_id, slots>>
    /\ UNCHANGED <<last_send_age, message_queue, processing_queue, queue_timer,
                   queue_lock, next_cmd, queue_sent, evicted, discarded,
                   since_success>>
    /\ UNCHANGED rvars

\* schedule_timed_message from the return of write_message on
\* (timers.py:89-133): False returns the id, True (sent or queued) creates
\* and starts the Timer.
TimedReturn(t, duration_seconds) ==
    /\ t \in Writers
    /\ ctl.op = "schedule" /\ ctl.st = "writing"
    /\ pc[t] = "done"
    /\ IF call[t].ret # "True"
       THEN /\ ctl' = [ctl EXCEPT !.st = "returned", !.ret = "id"]
            /\ UNCHANGED <<active_timers, timers>>
       ELSE LET k == NextTimerObj IN
            /\ timers' = [timers EXCEPT ![k] =
                             [UnusedTimer EXCEPT !.id = ctl.id, !.st = "pending",
                                                 !.remaining = duration_seconds,
                                                 !.cmd = call[t].cmd]]
            /\ active_timers' = [active_timers EXCEPT ![ctl.id] = k]
            /\ ctl' = [ctl EXCEPT !.st = "returned", !.ret = "id", !.timer = k]
    /\ pc' = [pc EXCEPT ![t] = "idle"]
    /\ call' = [call EXCEPT ![t] = NoCall]
    /\ UNCHANGED <<cur_id, id_used, slots>>
    /\ UNCHANGED <<last_send_age, message_queue, processing_queue, queue_timer,
                   queue_lock, next_cmd, queue_sent, evicted, discarded,
                   since_success>>
    /\ UNCHANGED rvars

\* restore_callback at the end of the sleep (timers.py:118-123):
\* restore_from_slot subscribes to the slot's topic and returns; the write
\* is made when the retained message arrives.
RestoreRequested(k) ==
    /\ timers[k].st = "firing"
    /\ timers[k].wait = 0
    /\ timers' = [timers EXCEPT ![k].st = "returned", ![k].age = 0,
                                ![k].restored = TRUE,
                                ![k].rst = "subscribed"]
    /\ UNCHANGED <<active_timers, cur_id, id_used, ctl>>
    /\ UNCHANGED <<slots, dvars, rvars>>

\* The retained message arrives: on_restore_message hands the saved layout
\* to write_message (state/manager.py:201), here up to the gate check.
RestoreDeliver(k, t) ==
    /\ timers[k].rst = "subscribed"
    /\ CtlFree
    /\ IdleWriter(t)
    /\ can_send_now \/ next_cmd <= MaxCmds
    /\ timers' = [timers EXCEPT ![k].rst = "calling", ![k].wrote = TRUE]
    /\ call' = [call EXCEPT ![t] = [op |-> "write_message", cmd |-> 0,
                                    gate |-> can_send_now, valid |-> TRUE,
                                    requests |-> 0, device |-> "none", ret |-> "none"]]
    /\ pc' = [pc EXCEPT ![t] = IF can_send_now THEN "wm_send" ELSE "wm_queue"]
    /\ UNCHANGED <<active_timers, cur_id, id_used, ctl, slots>>
    /\ UNCHANGED <<last_send_age, message_queue, processing_queue, queue_timer,
                   queue_lock, next_cmd, queue_sent, evicted, discarded,
                   since_success>>
    /\ UNCHANGED rvars

\* The write_message of the restore returns.
RestoreWritten(k, t) ==
    /\ timers[k].rst = "calling"
    /\ t \in Writers
    /\ pc[t] = "done"
    /\ timers' = [timers EXCEPT ![k].rst = IF call[t].gate THEN "direct" ELSE "queued",
                                ![k].rcmd = call[t].cmd]
    /\ pc' = [pc EXCEPT ![t] = "idle"]
    /\ call' = [call EXCEPT ![t] = NoCall]
    /\ UNCHANGED <<active_timers, cur_id, id_used, ctl, slots>>
    /\ UNCHANGED <<last_send_age, message_queue, processing_queue, queue_timer,
                   queue_lock, next_cmd, queue_sent, evicted, discarded,
                   since_success>>
    /\ UNCHANGED rvars

\* One tick of the one clock: the client's gate and queue timer, the
\* Timers of the timed displays and their sleeps.
OrderTick ==
    /\ \A k \in TimerObjs : ~(timers[k].st = "pending" /\ timers[k].remaining = 0)
    /\ last_send_age' = Min(last_send_age + 1, rate_limit_seconds)
    /\ since_success' = Min(since_success + 1, rate_limit_seconds)
    /\ queue_timer' = IF queue_timer.armed /\ queue_timer.remaining > 0
                      THEN [queue_timer EXCEPT !.remaining = @ - 1]
                      ELSE queue_timer
    /\ timers' = TimersAfterTick
    /\ UNCHANGED <<message_queue, processing_queue, queue_lock, pc, call, next_cmd,
                   queue_sent, evicted, discarded>>
    /\ UNCHANGED <<active_timers, cur_id, id_used, ctl, slots>>
    /\ UNCHANGED rvars

OrderNext ==
    \/ OrderTick
    \/ \E t \in Writers : PlainWrite(t)
    \/ \E t \in Writers : QueueMessage(t)
    \/ \E t \in Writers : DirectRequest(t)
    \/ \E t \in Writers : DirectSuccess(t)
    \/ \E t \in Writers : DirectFailure(t)
    \/ \E t \in TimerThreads : TimerFire(t)
    \/ \E t \in TimerThreads : ProcessQueueEnter(t)
    \/ \E t \in TimerThreads : ProcessQueueRequest(t)
    \/ \E t \in TimerThreads : ProcessQueueSuccess(t)
    \/ \E t \in TimerThreads : ProcessQueueFailure(t)
    \/ \E t \in Threads : PlainReturn(t)
    \/ \E t \in Writers : TimedCall(t)
    \/ \E t \in Writers, d \in Durations : TimedReturn(t, d)
    \/ \E k \in TimerObjs : TimerExpires(k)
    \/ \E k \in TimerObjs : RestoreRequested(k)
    \/ \E k \in TimerObjs : RestorePop(k)
    \/ \E k \in TimerObjs, t \in Writers : RestoreDeliver(k, t)
    \/ \E k \in TimerObjs, t \in Writers : RestoreWritten(k, t)

OrderSpec == Init /\ [][OrderNext]_vars

\* The timed content of Timer k has reached the device or has been dropped:
\* it was sent directly, or its queue entry was popped and requested,
\* evicted by an overflow or discarded by cleanup.
TimedResolved(k) ==
    \/ timers[k].cmd = 0
    \/ timers[k].cmd \in Range(queue_sent) \cup evicted \cup discarded

\* C33: the device send of a timed display's restore content, direct or
\* from the queue, is not initiated before the timed content of that
\* display has been sent or dropped.
C33_RestoreAfterTimed ==
    [][\A k \in TimerObjs :
          /\ \A t \in Writers :
                (timers[k].rst = "calling" /\ Initiates(t)) => TimedResolved(k)
          /\ \A t \in TimerThreads :
                (/\ timers[k].rst = "queued"
                 /\ Initiates(t)
                 /\ call[t].cmd = timers[k].rcmd) => TimedResolved(k)]_vars


\* ------------------------------------------------- recovery after a stall
\* The device refuses the first queued send of the run; every other device
\* write succeeds.
FirstQueuedSendFails(t) ==
    /\ Len(queue_sent) = 1
    /\ ProcessQueueFailure(t)

RecoverNext ==
    \/ Tick
    \/ \E t \in Writers : WriteMessage(t)
    \/ \E t \in Writers : QueueMessage(t)
    \/ \E t \in Writers : DirectRequest(t)
    \/ \E t \in Writers : DirectSuccess(t)
    \/ \E t \in TimerThreads : TimerFire(t)
    \/ \E t \in TimerThreads : ProcessQueueEnter(t)
    \/ \E t \in TimerThreads : ProcessQueueRequest(t)
    \/ \E t \in TimerThreads : ProcessQueueSuccess(t)
    \/ \E t \in TimerThreads : FirstQueuedSendFails(t)
    \/ \E t \in Threads : Return(t)

\* Time passes, a call that has begun runs to its end, an armed timer
\* fires and its callback runs; nothing obliges a caller to call again.
RecoverSpec ==
    /\ Init
    /\ [][RecoverNext]_vars
    /\ WF_vars(Tick)
    /\ \A t \in Writers :
          /\ WF_vars(QueueMessage(t))
          /\ WF_vars(DirectRequest(t))
          /\ WF_vars(DirectSuccess(t))
          /\ WF_vars(Return(t))
    /\ \A t \in TimerThreads :
          /\ WF_vars(TimerFire(t))
          /\ WF_vars(ProcessQueueEnter(t))
          /\ WF_vars(ProcessQueueRequest(t))
          /\ WF_vars(ProcessQueueSuccess(t))
          /\ WF_vars(Return(t))

\* The queue is stalled and no call is in progress.
StalledAtRest == Stalled /\ \A t \in Threads : pc[t] = "idle"

\* C34: once a failed queued send has left commands queued with no timer
\* armed, a write_message call that completes afterwards, sent directly or
\* queued, is followed by the queue being emptied.
C34_RecoveryAfterStall ==
    [](StalledAtRest =>
          []((\E t \in Writers : pc[t] = "done") => <>(message_queue = <<>>)))


\* C35: every Timer that is armed and has neither expired nor been
\* cancelled is the entry of active_timers under its id; the pop of a
\* fired Timer and a cancel_timed_message remove no entry but that of the
\* Timer they belong to.
C35_RegistryTracksPending ==
    [][/\ \A k \in TimerObjs : timers'[k].st = "pending" => InRegistry(k)'
       /\ \A k \in TimerObjs :
             (\/ timers[k].st = "returned" /\ timers'[k].st = "finished"
              \/ timers[k].st = "pending" /\ timers'[k].st = "cancelled"
                                          /\ ctl'.op = "cancel")
                => \A i \in Ids :
                      active_timers'[i] # active_timers[i] => active_timers[i] = k]_vars


\* C36: the slot temp_<timer_id> a schedule_timed_message call takes for
\* itself is not the restore slot of a Timer that is still pending.
C36_FreshSnapshotSlot ==
    [][(/\ ctl'.op = "schedule" /\ ctl'.st = "writing"
        /\ ctl.st # "writing"
        /\ ctl'.slot # SuppliedSlot)
          => \A k \in TimerObjs :
                timers[k].st = "pending" => timers[k].slot # ctl'.slot]_vars


\* schedule_timed_message returns after a write that reported failure.
FailedScheduleReturns ==
    /\ ctl.op = "schedule" /\ ctl.st = "writing"
    /\ ctl'.st = "returned"
    /\ ctl'.timer = NoTimerObj

\* C37: a schedule_timed_message whose write fails creates no Timer, leaves
\* active_timers and every Timer as they are and returns its id; a
\* cancel_timed_message for that id returns False.
C37_FailedWriteArmsNothing ==
    [][/\ FailedScheduleReturns =>
             /\ timers' = timers
             /\ active_timers' = active_timers
             /\ ctl'.ret = "id"
             /\ ctl'.id = ctl.id
       /\ (/\ ctl.op = "schedule" /\ ctl.st = "returned"
           /\ ctl.timer = NoTimerObj
           /\ ctl'.op = "cancel"
           /\ ctl'.id = ctl.id) => ctl'.ret = "False"]_vars


\* ------------------------------------------------------------ bridge stop
\* VestaboardMQTTBridge.stop (bridge.py:331-339): cleanup_all_timers, then
\* the MQTT client is disconnected and its loop stopped; the client of the
\* device is not touched.  stop runs on the thread of the MQTT loop, which
\* is in no handler then, and no handler or retained-message callback runs
\* afterwards.
BridgeStop ==
    /\ \A t \in Writers : pc[t] = "idle"
    /\ CleanupAllTimers

StopNext ==
    \/ OrderNext
    \/ BridgeStop

StopSpec == Init /\ [][StopNext]_vars

\* stop has returned.
Stopped == ctl.op = "cleanup" /\ ctl.st = "returned"

\* C38: once stop has returned, no queue-processing timer is pending, the
\* command queue is empty, and neither a _process_queue call nor a restore
\* of a timed display initiates a device write.
C38_StopQuiesces ==
    [][Stopped =>
          /\ ~queue_timer.armed
          /\ message_queue = <<>>
          /\ \A t \in Threads : ~Initiates(t)]_vars

====
